---- MODULE Spec2Model ----
(***************************************************************************)
(* A model of the reliability pipeline of the LLM gateway:                 *)
(*   - retryWithBackoff            (services/retry.ts)                     *)
(*   - createCircuitBreaker        (src/server.ts 104-120, opossum)        *)
(*   - LLMService                  (services/request-coalescing.ts 95-)    *)
(*   - RequestCoalescer            (services/request-coalescing.ts 7-71)   *)
(*   - IdempotencyCache            (services/idempotency.ts)               *)
(*   - RateLimiter and the route   (middleware/rate-limit.ts,              *)
(*                                  routes/chat.ts, server.ts 13-70)       *)
(*                                                                         *)
(* The specifications:                                                     *)
(*   SpecRetry     one run of retryWithBackoff(fn, options) over a         *)
(*                 scripted fn and a bounded set of option records;        *)
(*   Spec          LLMService.chat calls running concurrently over the two *)
(*                 providers of the registry and their circuit breakers;   *)
(*   SpecCoalesce  execute calls and settlements on one RequestCoalescer;  *)
(*   SpecCache     set, get and has on one IdempotencyCache;               *)
(*   SpecRoute     concurrent POST /v1/chat/completions requests;          *)
(*   SpecLimiter   check calls on one RateLimiter(maxRequests, windowMs);  *)
(*   SpecAdapter   one chat call on OpenAIProvider or AnthropicProvider.    *)
(***************************************************************************)
EXTENDS Integers, Sequences, FiniteSets, TLC

VARIABLES
    \* ---- retryWithBackoff (SpecRetry) ----
    rOpts,        \* options: [maxAttempts, initialDelay, maxDelay, factor]
    rFn,          \* the behaviour of fn: its outcome at the k-th invocation
    rPc,          \* "start" | "await" | "sleep" | "returned" | "thrown"
    rAttempt,     \* the loop variable attempt
    rDelay,       \* the local delay
    rLastError,   \* the local lastError
    rCalls,       \* number of invocations of fn so far
    rSleeps,      \* the delays slept so far, in order
    rResult,      \* what the driver returned or threw
    \* ---- LLMService (Spec) ----
    now,             \* Date.now(), in ms
    defaultProvider, \* LLMService.defaultProvider
    behaviour,       \* per provider: the outcomes its chat may produce
    breaker,         \* LLMService.circuitBreakers: per provider, the opossum state
    call,            \* the chat calls: one record per call
    \* ---- RequestCoalescer (SpecCoalesce) ----
    coNow,        \* Date.now(), in ms
    pending,      \* RequestCoalescer.pending: per key, its entry or NoEntry
    exec,         \* the execute calls: one record per call
    cleared,      \* clear() has been called
    \* ---- IdempotencyCache (SpecCache, SpecRoute) ----
    cNow,         \* Date.now(), in ms
    cache,        \* IdempotencyCache.cache: per key, its entry or NoCacheEntry
    lastSet,      \* SpecCache: per key, the latest set(key, response)
    firstSet,     \* SpecCache: per key, the first set(key, response)
    lastGet,      \* SpecCache: the latest get(key): its key, time and result,
                  \* and the latest set of the key before it
    \* ---- POST /v1/chat/completions (SpecRoute) ----
    rateMax,      \* RateLimiter.maxRequests, from RATE_LIMIT_MAX
    limiter,      \* RateLimiter.requests: per ip, its entry or NoLimit
    req,          \* the HTTP requests: one record per request
    \* ---- RateLimiter (SpecLimiter) ----
    rlNow,        \* Date.now(), in ms
    maxRequests,  \* RateLimiter.maxRequests
    windowMs,     \* RateLimiter.windowMs
    requests,     \* RateLimiter.requests: per key, its entry or NoLimit
    checks,       \* the check calls so far, in order: key, time and result
    \* ---- OpenAIProvider, AnthropicProvider (SpecAdapter) ----
    adapter,      \* the provider chat is called on
    chatRequest,  \* the ChatRequest: its messages
    vendor,       \* what the vendor's client does with the call
    aPc,          \* "idle" | "awaiting" | "done"
    vendorCall,   \* the arguments of the client call: system and messages
    chatResult    \* how the promise of chat settled

retryVars == <<rOpts, rFn, rPc, rAttempt, rDelay, rLastError, rCalls, rSleeps, rResult>>
serviceVars == <<now, defaultProvider, behaviour, breaker, call>>
coalesceVars == <<coNow, pending, exec, cleared>>
cacheVars == <<cNow, cache, lastSet, firstSet, lastGet>>
routeVars == <<rateMax, limiter, req>>
limiterVars == <<rlNow, maxRequests, windowMs, requests, checks>>
adapterVars == <<adapter, chatRequest, vendor, aPc, vendorCall, chatResult>>
vars == <<rOpts, rFn, rPc, rAttempt, rDelay, rLastError, rCalls, rSleeps, rResult,
          now, defaultProvider, behaviour, breaker, call,
          coNow, pending, exec, cleared,
          cNow, cache, lastSet, firstSet, lastGet,
          rateMax, limiter, req,
          rlNow, maxRequests, windowMs, requests, checks,
          adapter, chatRequest, vendor, aPc, vendorCall, chatResult>>

\* what the actions of one component leave alone
otherThanRetry == <<serviceVars, coalesceVars, cacheVars, routeVars, limiterVars, adapterVars>>
otherThanService == <<retryVars, coalesceVars, cacheVars, routeVars, limiterVars, adapterVars>>
otherThanCoalesce == <<retryVars, serviceVars, cacheVars, routeVars, limiterVars, adapterVars>>
otherThanCache == <<retryVars, serviceVars, coalesceVars, routeVars, limiterVars, adapterVars>>
otherThanRoute == <<retryVars, serviceVars, coalesceVars, lastSet, firstSet, lastGet, limiterVars, adapterVars>>
otherThanAdapter ==
    <<retryVars, serviceVars, coalesceVars, cacheVars, routeVars, limiterVars>>
otherThanLimiter == <<retryVars, serviceVars, coalesceVars, cacheVars, routeVars, adapterVars>>

Min(a, b) == IF a <= b THEN a ELSE b

(***************************************************************************)
(* Values: errors and results.  Every error is a record with the same      *)
(* fields: msg (the fixed text), n (a number the text embeds, else 0) and  *)
(* detail (a text the message embeds, else "").                            *)
(***************************************************************************)
Err(msg) == [msg |-> msg, n |-> 0, detail |-> ""]

\* retry.ts 22-24: `Max retry attempts (${maxAttempts}) reached. Last error: ${lastError.message}`
MaxAttemptsError(maxAttempts, lastError) ==
    [msg |-> "Max retry attempts reached", n |-> maxAttempts, detail |-> lastError.msg]

\* retry.ts 32: `throw lastError` with lastError still undefined
UndefinedError == Err("undefined")

NoError == Err("")

(***************************************************************************)
(* retryWithBackoff: the steps of the loop, shared by both specifications. *)
(***************************************************************************)
\* retry.ts 15: the loop condition
LoopContinuesStrict(attempt, maxAttempts) == attempt < maxAttempts
LoopContinues(attempt, maxAttempts) == attempt <= maxAttempts

\* retry.ts 21: in the catch block, the last attempt throws, the others sleep
IsLastAttemptOffByOne(attempt, maxAttempts) == attempt + 1 >= maxAttempts
IsLastAttempt(attempt, maxAttempts) == attempt = maxAttempts

\* retry.ts 28: delay = Math.min(delay * factor, maxDelay)
NextDelay(delay, factor, maxDelay) == Min(delay * factor, maxDelay)

(***************************************************************************)
(* SpecRetry: one call retryWithBackoff(fn, options).                      *)
(* fn is scripted like a mock: rFn[k] is what its k-th invocation does.    *)
(***************************************************************************)
MaxAttemptsBound == 3

\* what one invocation of fn does: resolve with a value or reject with an error
FnOutcomes ==
    { [ok |-> TRUE,  value |-> v,  error |-> NoError] : v \in {"a", "b"} } \cup
    { [ok |-> FALSE, value |-> "", error |-> Err(m)]  : m \in {"fail1", "fail2"} }

ScriptLen == MaxAttemptsBound + 1

\* the delay options: the default of retry.ts 10, the options of retry.test.ts
\* 17-22, and a set with initialDelay > maxDelay
DelayOptions ==
    { [initialDelay |-> 100,  maxDelay |-> 5000, factor |-> 2],
      [initialDelay |-> 10,   maxDelay |-> 100,  factor |-> 2],
      [initialDelay |-> 7000, maxDelay |-> 5000, factor |-> 3] }

RetryOptions ==
    { [maxAttempts |-> n, initialDelay |-> d.initialDelay,
       maxDelay |-> d.maxDelay, factor |-> d.factor] :
        n \in 0..MaxAttemptsBound, d \in DelayOptions }

NoResult == [kind |-> "none", value |-> "", error |-> NoError]
Returned(v) == [kind |-> "returned", value |-> v, error |-> NoError]
Thrown(e) == [kind |-> "thrown", value |-> "", error |-> e]

\* the outcome of the k-th invocation of the scripted fn
FnAt(k) == rFn[Min(k, ScriptLen)]

RetryIdle ==
    /\ rOpts = [maxAttempts |-> 0, initialDelay |-> 0, maxDelay |-> 0, factor |-> 0]
    /\ rFn = <<>>
    /\ rPc = "unused"
    /\ rAttempt = 0
    /\ rDelay = 0
    /\ rLastError = UndefinedError
    /\ rCalls = 0
    /\ rSleeps = <<>>
    /\ rResult = NoResult

\* retry.ts 12-13: the locals before the loop
RetryInit ==
    /\ rOpts \in RetryOptions
    /\ rFn \in [1..ScriptLen -> FnOutcomes]
    /\ rPc = "start"
    /\ rAttempt = 0
    /\ rDelay = 0
    /\ rLastError = UndefinedError
    /\ rCalls = 0
    /\ rSleeps = <<>>
    /\ rResult = NoResult

\* retry.ts 15-17 and 32: the loop test with attempt = a; fn is invoked
\* synchronously when the test passes, else the loop is left and lastError thrown
EnterLoop(a) ==
    /\ rAttempt' = a
    /\ IF LoopContinues(a, rOpts.maxAttempts)
       THEN /\ rCalls' = rCalls + 1
            /\ rPc' = "await"
            /\ rResult' = rResult
       ELSE /\ rCalls' = rCalls
            /\ rPc' = "thrown"
            /\ rResult' = Thrown(rLastError)

\* retry.ts 8-17: the call of retryWithBackoff up to its first await
RetryStart ==
    /\ rPc = "start"
    /\ rDelay' = rOpts.initialDelay
    /\ EnterLoop(1)
    /\ UNCHANGED <<rOpts, rFn, rLastError, rSleeps>>
    /\ UNCHANGED otherThanRetry

\* retry.ts 17: fn() resolved, `return await fn()`
RetryFnResolves ==
    /\ rPc = "await"
    /\ FnAt(rCalls).ok
    /\ rPc' = "returned"
    /\ rResult' = Returned(FnAt(rCalls).value)
    /\ UNCHANGED <<rOpts, rFn, rAttempt, rDelay, rLastError, rCalls, rSleeps>>
    /\ UNCHANGED otherThanRetry

\* retry.ts 18-27: fn() rejected: the catch block up to the throw, or up to the
\* sleep of `delay` ms that it starts
RetryFnRejects ==
    /\ rPc = "await"
    /\ ~FnAt(rCalls).ok
    /\ rLastError' = FnAt(rCalls).error
    /\ IF IsLastAttempt(rAttempt, rOpts.maxAttempts)
       THEN /\ rPc' = "thrown"
            /\ rSleeps' = rSleeps
            /\ rResult' = Thrown(MaxAttemptsError(rOpts.maxAttempts, FnAt(rCalls).error))
       ELSE /\ rPc' = "sleep"
            /\ rSleeps' = Append(rSleeps, rDelay)
            /\ rResult' = rResult
    /\ UNCHANGED <<rOpts, rFn, rAttempt, rDelay, rCalls>>
    /\ UNCHANGED otherThanRetry

\* retry.ts 27-29 and 15-17: the sleep ends, delay is updated, attempt++ and the
\* next iteration starts
RetryWake ==
    /\ rPc = "sleep"
    /\ rDelay' = NextDelay(rDelay, rOpts.factor, rOpts.maxDelay)
    /\ EnterLoop(rAttempt + 1)
    /\ UNCHANGED <<rOpts, rFn, rLastError, rSleeps>>
    /\ UNCHANGED otherThanRetry

(***************************************************************************)
(* LLMService and its circuit breakers.                                    *)
(*                                                                         *)
(* Time.  Date.now() advances in steps of TickMs, the breaker timeout;     *)
(* everything else takes no time.  A provider call either settles in the   *)
(* instant it was started or is still pending when the breaker's timer     *)
(* fires; a backoff sleep (100 or 200 ms) ends within the instant it was   *)
(* started in.  Timers are served before time advances further.            *)
(***************************************************************************)
NumCalls == 2
MaxTicks == 3

\* request-coalescing.ts 143-146: the retry options of chat
MaxAttempts == 3
InitialDelay == 100
MaxDelay == 5000
Factor == 2

\* request-coalescing.ts 110-112: the default breaker options
Timeout == 30000
ErrorThresholdPercentage == 50
ResetTimeout == 60000

\* unnamed/part_001 14: the timeout field of a request, by default
RequestTimeout == 30000

TickMs == Timeout
MaxNow == MaxTicks * TickMs

Calls == 1..NumCalls

\* server.ts 31-34: the registry (names: providers/openai.ts 5, providers/index.ts 11)
Providers == {"openai", "anthropic"}

\* providerName of chat(request, providerName?): a registered name, an
\* unregistered one, or undefined
Undefined == "undefined"
RequestNames == {"openai", "anthropic", "azure", Undefined}

\* server.ts 38: process.env.DEFAULT_PROVIDER ?? 'openai'
DefaultProviders == {"openai", "azure"}

\* unnamed/part_000 28-35: what one provider.chat(request) can do: fulfil with a
\* ProviderResult (success, or an error marked retryable or not), reject (a
\* provider that throws), or stay pending beyond the breaker timeout
Outcomes == {"ok", "errRetryable", "errFatal", "throws", "hang"}
Answers == {"ok", "errRetryable", "errFatal"}

\* the providers considered: providers that can do anything, and providers
\* whose every call returns an error result marked retryable
Behaviours == {[p \in Providers |-> Outcomes], [p \in Providers |-> {"errRetryable"}]}

\* unnamed/part_000 28-30: ProviderResult
NoProviderResult == [success |-> FALSE, data |-> "", error |-> NoError, retryable |-> FALSE]
ProviderResult(o) ==
    CASE o = "ok"           -> [success |-> TRUE,  data |-> "response", error |-> NoError, retryable |-> FALSE]
      [] o = "errRetryable" -> [success |-> FALSE, data |-> "", error |-> Err("status 503"), retryable |-> TRUE]
      [] o = "errFatal"     -> [success |-> FALSE, data |-> "", error |-> Err("status 400"), retryable |-> FALSE]

\* server.ts 114-118: the fallback given to the breaker
FallbackResult ==
    [success |-> FALSE, data |-> "", error |-> Err("Circuit breaker is OPEN"), retryable |-> FALSE]

\* opossum: buildError('Breaker is open'), buildError(`Timed out after ${timeout}ms`)
BreakerOpenError == Err("Breaker is open")
TimedOutError == [msg |-> "Timed out", n |-> Timeout, detail |-> ""]
ProviderThrewError == Err("provider threw")

\* request-coalescing.ts 135: `Provider not found: ${providerName ?? this.defaultProvider}`
ProviderNotFound(name) == [msg |-> "Provider not found", n |-> 0, detail |-> name]

\* how a breaker.fire(request) settled
NotFired == [settle |-> "none", result |-> NoProviderResult, error |-> NoError]
Pending == [settle |-> "pending", result |-> NoProviderResult, error |-> NoError]
Resolved(r) == [settle |-> "resolved", result |-> r, error |-> NoError]
Rejected(e) == [settle |-> "rejected", result |-> NoProviderResult, error |-> e]

(***************************************************************************)
(* The breaker: new CircuitBreaker(fn, {timeout, errorThresholdPercentage, *)
(* resetTimeout, fallback}) of opossum.  state, pendingClose and the       *)
(* rolling counts fires and failures are opossum's; openedAt is the time   *)
(* the 'open' event armed the reset timer.                                 *)
(***************************************************************************)
BreakerInit ==
    [state |-> "closed", pendingClose |-> FALSE, fires |-> 0, failures |-> 0, openedAt |-> 0]

\* opossum call(): the call is refused iff `!this.closed && !this.pendingClose`
Admits(b) == b.state = "closed" \/ b.pendingClose

\* server.ts 110-119 with circuit-breaker.test.ts 39-45: opossum reads
\* no `fallback` option (a fallback is registered with breaker.fallback(fn)),
\* so a refused fire settles as `fallback(...) || Promise.reject(error)` with no
\* fallback function: it rejects with 'Breaker is open'
RefusedFireFallback == Resolved(FallbackResult)
RefusedFire == Rejected(BreakerOpenError)

\* opossum handleError(): with no fallback function, a fire whose function
\* rejected or timed out rejects with that error
FailedFireFallsBack(e) == Resolved(FallbackResult)
FailedFire(e) == Rejected(e)

\* opossum call(): fn's promise fulfilled: the fire resolves with its value,
\* whatever the value says
AnsweredFireSuccessOnly(o) == IF o = "ok" THEN Resolved(ProviderResult(o)) ELSE Rejected(ProviderResult(o).error)
AnsweredFire(o) == Resolved(ProviderResult(o))

\* opossum open(): only a breaker that is not Open changes; the 'open' event
\* starts the reset timer
OpenBreaker(b) ==
    IF b.state # "open"
    THEN [b EXCEPT !.state = "open", !.pendingClose = FALSE, !.openedAt = now]
    ELSE b

\* opossum close(): clears the reset timer
CloseBreaker(b) ==
    IF b.state # "closed"
    THEN [b EXCEPT !.state = "closed", !.pendingClose = FALSE, !.openedAt = 0]
    ELSE b

\* opossum fail(): errorRate = failures / fires * 100 (of the rolling window),
\* open when errorRate > errorThresholdPercentage or the breaker is HalfOpen
ErrorRateExceeded(b) == b.failures * 100 > ErrorThresholdPercentage * b.fires

\* the 'failure' event and fail()
OnFailureKeepsState(b) == [b EXCEPT !.failures = @ + 1]
OnFailure(b) ==
    LET counted == [b EXCEPT !.failures = @ + 1]
    IN  IF ErrorRateExceeded(counted) \/ counted.state = "halfOpen"
        THEN OpenBreaker(counted)
        ELSE counted

\* the 'success' event: `if (this.halfOpen) this.close()`
OnSuccess(b) == IF b.state = "halfOpen" THEN CloseBreaker(b) ELSE b

\* the synchronous part of fire() on the breaker: the 'fire' event is counted,
\* an admitted call takes the HalfOpen permit (`this[PENDING_CLOSE] = false`)
FireBreaker(b) ==
    IF Admits(b)
    THEN [b EXCEPT !.fires = @ + 1, !.pendingClose = FALSE]
    ELSE [b EXCEPT !.fires = @ + 1]

(***************************************************************************)
(* LLMService.chat                                                         *)
(***************************************************************************)
\* one chat call.  provider: the provider its providerName resolved to;
\* attempt, delay: the locals of its retryWithBackoff; start: when its pending
\* provider call was started; invoked: provider.chat invocations so far; slept:
\* backoff sleeps so far; result: what chat returned or threw.  Of its latest
\* fire: firedIn, the breaker state it found; refused, the breaker refused it;
\* probe, it was admitted in HalfOpen; outcome, what provider.chat did
\* ("pending", an element of Outcomes, or "timeout"); lastFire, how it settled
\* timeout, the timeout field of the request; began, when a running call was
\* made
CallInit ==
    [pc |-> "idle", provider |-> "none", attempt |-> 0, delay |-> 0,
     timeout |-> 0, began |-> 0, start |-> 0, invoked |-> 0, slept |-> 0, result |-> NoResult,
     firedIn |-> "none", refused |-> FALSE, probe |-> FALSE, outcome |-> "none",
     lastFire |-> NotFired]

\* request-coalescing.ts 133: providerName ?? this.defaultProvider
RequestedName(name) == IF name = Undefined THEN defaultProvider ELSE name

\* request-coalescing.ts 133-136: this.providers.get(...), "none" when absent
ProviderLookupOrDefault(name) ==
    IF RequestedName(name) \in Providers THEN RequestedName(name) ELSE "openai"
ProviderLookup(name) ==
    IF RequestedName(name) \in Providers THEN RequestedName(name) ELSE "none"

\* request-coalescing.ts 149-153: `if (!result.success) throw result.error;
\* return result.data`
ChatOutcome(r) == IF r.success THEN Returned(r.data) ELSE Thrown(r.error)

\* retry.ts 16-29 inside chat: the fire of the current attempt settled.  A
\* resolved fire ends retryWithBackoff and chat; a rejected one is caught, and
\* either the last attempt throws or the backoff sleep starts
Settle(cr, s) ==
    IF s.settle = "resolved"
    THEN [cr EXCEPT !.pc = "done", !.began = 0, !.start = 0, !.lastFire = s,
                    !.result = ChatOutcome(s.result)]
    ELSE IF IsLastAttempt(cr.attempt, MaxAttempts)
         THEN [cr EXCEPT !.pc = "done", !.began = 0, !.start = 0, !.lastFire = s,
                         !.result = Thrown(MaxAttemptsError(MaxAttempts, s.error))]
         ELSE [cr EXCEPT !.pc = "sleep", !.start = 0, !.lastFire = s, !.slept = @ + 1]

\* request-coalescing.ts 141 and opossum call(): breaker.fire(request) at time
\* t on breaker b: an admitted call invokes provider.chat, a refused one
\* settles at once
FireCall(cr, b, t) ==
    IF Admits(b)
    THEN [cr EXCEPT !.pc = "inflight", !.start = t, !.invoked = @ + 1,
                    !.firedIn = b.state, !.refused = FALSE,
                    !.probe = (b.state = "halfOpen"), !.outcome = "pending",
                    !.lastFire = Pending]
    ELSE Settle([cr EXCEPT !.firedIn = b.state, !.refused = TRUE, !.probe = FALSE,
                           !.outcome = "none"],
                RefusedFire)

\* a breaker that an earlier chat call, ended by now, has opened at time 0: its
\* first attempt failed and its two other attempts were refused
BreakerOpened ==
    [state |-> "open", pendingClose |-> FALSE, fires |-> MaxAttempts, failures |-> 1,
     openedAt |-> 0]

\* the service at time 0: just constructed, or, where the providers can throw,
\* with its breakers just opened by earlier calls
ServiceInit ==
    /\ now = 0
    /\ defaultProvider \in DefaultProviders
    /\ behaviour \in Behaviours
    /\ breaker \in {[p \in Providers |-> BreakerInit]} \cup
                   {[p \in Providers |-> BreakerOpened] : x \in
                        {b \in {behaviour} : \A p \in Providers : "throws" \in b[p]}}
    /\ call = [c \in Calls |-> CallInit]

ServiceIdle ==
    /\ now = 0
    /\ defaultProvider = "openai"
    /\ behaviour = [p \in Providers |-> Outcomes]
    /\ breaker = [p \in Providers |-> BreakerInit]
    /\ call = [c \in Calls |-> CallInit]

\* request-coalescing.ts 132-147: chat(request, name) up to its first await: the
\* provider lookup, and the first attempt's fire.  The calls are numbered in the
\* order they are made
Chat(c, name) ==
    /\ call[c].pc = "idle"
    /\ \A d \in Calls : d < c => call[d].pc # "idle"
    /\ LET p == ProviderLookup(name)
           cr == [call[c] EXCEPT !.provider = p, !.timeout = RequestTimeout]
       IN  IF p = "none"
           THEN /\ call' = [call EXCEPT ![c] =
                        [cr EXCEPT !.pc = "done",
                                   !.result = Thrown(ProviderNotFound(RequestedName(name)))]]
                /\ breaker' = breaker
           ELSE /\ call' = [call EXCEPT ![c] =
                        FireCall([cr EXCEPT !.attempt = 1, !.delay = InitialDelay,
                                            !.began = now],
                                 breaker[p], now)]
                /\ breaker' = [breaker EXCEPT ![p] = FireBreaker(@)]
    /\ UNCHANGED <<now, defaultProvider, behaviour>>
    /\ UNCHANGED otherThanService

\* retry.ts 27-29, 15-17: a backoff sleep ends: the delay is updated, attempt++
\* and the next attempt fires
Wake(c) ==
    /\ call[c].pc = "sleep"
    /\ LET p == call[c].provider
           cr == [call[c] EXCEPT !.attempt = @ + 1,
                                 !.delay = NextDelay(@, Factor, MaxDelay)]
       IN  /\ LoopContinues(cr.attempt, MaxAttempts)
           /\ call' = [call EXCEPT ![c] = FireCall(cr, breaker[p], now)]
           /\ breaker' = [breaker EXCEPT ![p] = FireBreaker(@)]
    /\ UNCHANGED <<now, defaultProvider, behaviour>>
    /\ UNCHANGED otherThanService

\* provider.chat fulfils with a ProviderResult before the breaker timeout
ProviderAnswers(c, o) ==
    /\ call[c].pc = "inflight"
    /\ o \in behaviour[call[c].provider] \cap Answers
    /\ now - call[c].start < Timeout
    /\ LET p == call[c].provider
       IN  /\ breaker' = [breaker EXCEPT ![p] = OnSuccess(@)]
           /\ call' = [call EXCEPT ![c] = Settle([@ EXCEPT !.outcome = o], AnsweredFire(o))]
    /\ UNCHANGED <<now, defaultProvider, behaviour>>
    /\ UNCHANGED otherThanService

\* provider.chat rejects before the breaker timeout
ProviderThrows(c) ==
    /\ call[c].pc = "inflight"
    /\ "throws" \in behaviour[call[c].provider]
    /\ now - call[c].start < Timeout
    /\ LET p == call[c].provider
       IN  /\ breaker' = [breaker EXCEPT ![p] = OnFailure(@)]
           /\ call' = [call EXCEPT ![c] =
                        Settle([@ EXCEPT !.outcome = "throws"], FailedFire(ProviderThrewError))]
    /\ UNCHANGED <<now, defaultProvider, behaviour>>
    /\ UNCHANGED otherThanService

\* opossum call(): the timeout timer of a pending call fires
TimeoutFiresOnEveryBreaker(c) ==
    /\ call[c].pc = "inflight"
    /\ now - call[c].start >= Timeout
    /\ breaker' = [q \in Providers |-> OnFailure(breaker[q])]
    /\ call' = [call EXCEPT ![c] =
                 Settle([@ EXCEPT !.outcome = "timeout"], FailedFire(TimedOutError))]
    /\ UNCHANGED <<now, defaultProvider, behaviour>>
    /\ UNCHANGED otherThanService
TimeoutNeverFires(c) ==
    /\ call[c].pc = "inflight"
    /\ FALSE
    /\ UNCHANGED vars
TimeoutFires(c) ==
    /\ call[c].pc = "inflight"
    /\ now - call[c].start >= Timeout
    /\ LET p == call[c].provider
       IN  /\ breaker' = [breaker EXCEPT ![p] = OnFailure(@)]
           /\ call' = [call EXCEPT ![c] =
                        Settle([@ EXCEPT !.outcome = "timeout"], FailedFire(TimedOutError))]
    /\ UNCHANGED <<now, defaultProvider, behaviour>>
    /\ UNCHANGED otherThanService

\* opossum: the reset timer, started by the 'open' event, fires after
\* resetTimeout ms: the breaker becomes HalfOpen with one permit
ResetTimerFires(p) ==
    /\ breaker[p].state = "open"
    /\ now - breaker[p].openedAt >= ResetTimeout
    /\ breaker' = [breaker EXCEPT ![p] = [@ EXCEPT !.state = "halfOpen", !.pendingClose = TRUE]]
    /\ UNCHANGED <<now, defaultProvider, behaviour, call>>
    /\ UNCHANGED otherThanService

TimerDue ==
    \/ \E c \in Calls : call[c].pc = "inflight" /\ now - call[c].start >= Timeout
    \/ \E p \in Providers :
          breaker[p].state = "open" /\ now - breaker[p].openedAt >= ResetTimeout

\* TickMs pass.  The pending provider calls are those of providers that can
\* stay pending; the rolling window of opossum (10 s by default) has passed, so
\* the counts restart
Tick ==
    /\ now + TickMs <= MaxNow
    /\ ~TimerDue
    /\ \A c \in Calls : call[c].pc # "sleep"
    /\ \A c \in Calls : call[c].pc = "inflight" => "hang" \in behaviour[call[c].provider]
    /\ now' = now + TickMs
    /\ breaker' = [p \in Providers |-> [breaker[p] EXCEPT !.fires = 0, !.failures = 0]]
    /\ UNCHANGED <<defaultProvider, behaviour, call>>
    /\ UNCHANGED otherThanService

Next ==
    \/ \E c \in Calls, name \in RequestNames : Chat(c, name)
    \/ \E c \in Calls : Wake(c)
    \/ \E c \in Calls, o \in Answers : ProviderAnswers(c, o)
    \/ \E c \in Calls : ProviderThrows(c)
    \/ \E c \in Calls : TimeoutFires(c)
    \/ \E p \in Providers : ResetTimerFires(p)
    \/ Tick

(***************************************************************************)
(* RequestCoalescer (services/request-coalescing.ts 7-71)                  *)
(***************************************************************************)
NumExec == 3
MaxCoTicks == 3

\* request-coalescing.ts 16: windowMs, by default
WindowMs == 100

CoTickMs == WindowMs \div 2
MaxCoNow == MaxCoTicks * CoTickMs

Execs == 1..NumExec
Keys == {"key1", "key2"}

\* request-coalescing.ts 7-10: PendingRequest {promise, timestamp}; a promise
\* is named by the execute call that created it
NoEntry == [promise |-> 0, timestamp |-> 0]
Entry(e, t) == [promise |-> e, timestamp |-> t]

\* one execute call.  invoked: it called fn; promise: the promise it
\* returned; status, value: the state of the promise it created, if any;
\* live: the promises of its key that were pending and younger than windowMs
\* when it was called
ExecInit ==
    [state |-> "idle", key |-> "none", at |-> 0, invoked |-> FALSE, promise |-> 0,
     status |-> "none", value |-> 0, live |-> {}]

CoalesceInit ==
    /\ coNow = 0
    /\ pending = [k \in Keys |-> NoEntry]
    /\ exec = [e \in Execs |-> ExecInit]
    /\ cleared = FALSE

\* request-coalescing.ts 31-32: an entry exists and is younger than windowMs
CoalescesAtWindowEdge(existing, t) == existing # NoEntry /\ t - existing.timestamp <= WindowMs
Coalesces(existing, t) == existing # NoEntry /\ t - existing.timestamp < WindowMs

\* request-coalescing.ts 38-41: the finally callback deletes the key's entry,
\* whichever call has put it there
CleanUpOnResolveOnly(map, k, ok) == IF ok THEN [map EXCEPT ![k] = NoEntry] ELSE map
CleanUp(map, k, ok) == [map EXCEPT ![k] = NoEntry]

\* the promises of key k that are pending and younger than windowMs
LiveOn(k) ==
    {d \in Execs : /\ exec[d].invoked
                   /\ exec[d].key = k
                   /\ exec[d].status = "pending"
                   /\ coNow - exec[d].at < WindowMs}

\* request-coalescing.ts 24-49: execute(key, fn)
Execute(e, k) ==
    /\ exec[e].state = "idle"
    /\ \A d \in Execs : d < e => exec[d].state # "idle"
    /\ IF Coalesces(pending[k], coNow)
       THEN /\ exec' = [exec EXCEPT ![e] =
                          [@ EXCEPT !.state = "called", !.key = k, !.at = coNow,
                                    !.promise = pending[k].promise, !.live = LiveOn(k)]]
            /\ UNCHANGED pending
       ELSE /\ exec' = [exec EXCEPT ![e] =
                          [@ EXCEPT !.state = "called", !.key = k, !.at = coNow,
                                    !.invoked = TRUE, !.promise = e,
                                    !.status = "pending", !.live = LiveOn(k)]]
            /\ pending' = [pending EXCEPT ![k] = Entry(e, coNow)]
    /\ UNCHANGED <<coNow, cleared>>
    /\ UNCHANGED otherThanCoalesce

\* the promise of fn() settles, with the number of the invocation as its value
\* or its error; the finally callback runs before any caller sees the outcome
FnSettles(e, ok) ==
    /\ exec[e].invoked
    /\ exec[e].status = "pending"
    /\ exec' = [exec EXCEPT ![e] =
                  [@ EXCEPT !.status = IF ok THEN "resolved" ELSE "rejected",
                            !.value = e]]
    /\ pending' = CleanUp(pending, exec[e].key, ok)
    /\ UNCHANGED <<coNow, cleared>>
    /\ UNCHANGED otherThanCoalesce

\* request-coalescing.ts 61-63: clear()
Clear ==
    /\ ~cleared
    /\ pending' = [k \in Keys |-> NoEntry]
    /\ cleared' = TRUE
    /\ UNCHANGED <<coNow, exec>>
    /\ UNCHANGED otherThanCoalesce

CoTick ==
    /\ coNow + CoTickMs <= MaxCoNow
    /\ coNow' = coNow + CoTickMs
    /\ UNCHANGED <<pending, exec, cleared>>
    /\ UNCHANGED otherThanCoalesce

\* request-coalescing.ts 54-56: pendingCount
PendingCount == Cardinality({k \in Keys : pending[k] # NoEntry})

\* what the caller of execute call e observes: the state of the promise it got
Observed(e) ==
    [status |-> exec[exec[e].promise].status, value |-> exec[exec[e].promise].value]

(***************************************************************************)
(* IdempotencyCache (services/idempotency.ts)                              *)
(***************************************************************************)
MaxCacheTicks == 3

\* idempotency.ts 12 and server.ts 42: ttlMs, by default
TTL == 3600000

CacheTickMs == TTL \div 2
MaxCacheNow == MaxCacheTicks * CacheTickMs

CacheKeys == {"idem1", "idem2"}

\* a stored response: the chat response numbered id, as returned by
\* llmService.chat or as rebuilt by the response schema (routes/chat.ts 41)
Response(id, parsed) == [id |-> id, parsed |-> parsed, error |-> ""]
Responses == {Response(1, TRUE), Response(2, TRUE)}

\* idempotency.ts 19, 23: get returns undefined
Absent == [id |-> 0, parsed |-> FALSE, error |-> "undefined"]

\* idempotency.ts 3-6: CacheEntry {response, timestamp}
NoCacheEntry == [response |-> Absent, timestamp |-> 0]
CacheEntry(v, t) == [response |-> v, timestamp |-> t]

\* idempotency.ts 21 and 39: the entry has not expired
FreshStrictly(entry, t) == t - entry.timestamp < TTL
Fresh(entry, t) == ~(t - entry.timestamp > TTL)

\* idempotency.ts 17-28: what get(k) returns at time t
GetResult(c, k, t) ==
    IF c[k] = NoCacheEntry THEN Absent
    ELSE IF ~Fresh(c[k], t) THEN Absent
    ELSE c[k].response

\* idempotency.ts 18-24, 36-42: the cache after get(k) or has(k) at time t:
\* an expired entry is deleted
AfterReadRefreshes(c, k, t) ==
    IF c[k] = NoCacheEntry THEN c
    ELSE IF ~Fresh(c[k], t) THEN [c EXCEPT ![k] = NoCacheEntry]
    ELSE [c EXCEPT ![k].timestamp = t]
AfterRead(c, k, t) ==
    IF c[k] # NoCacheEntry /\ ~Fresh(c[k], t) THEN [c EXCEPT ![k] = NoCacheEntry] ELSE c

\* idempotency.ts 35-45: what has(k) returns at time t
HasResult(c, k, t) == c[k] # NoCacheEntry /\ Fresh(c[k], t)

\* idempotency.ts 30-33: the cache after set(k, v) at time t
AfterSetKeepsFirst(c, k, v, t) ==
    IF c[k] = NoCacheEntry THEN [c EXCEPT ![k] = CacheEntry(v, t)] ELSE c
AfterSet(c, k, v, t) == [c EXCEPT ![k] = CacheEntry(v, t)]

NoGet == [key |-> "none", at |-> 0, result |-> Absent, set |-> NoCacheEntry]

CacheInit ==
    /\ cNow = 0
    /\ cache = [k \in CacheKeys |-> NoCacheEntry]
    /\ lastSet = [k \in CacheKeys |-> NoCacheEntry]
    /\ firstSet = [k \in CacheKeys |-> NoCacheEntry]
    /\ lastGet = NoGet

\* idempotency.ts 30-33: set(k, v)
CacheSet(k, v) ==
    /\ cache' = AfterSet(cache, k, v, cNow)
    /\ lastSet' = [lastSet EXCEPT ![k] = CacheEntry(v, cNow)]
    /\ firstSet' = IF firstSet[k] = NoCacheEntry
                   THEN [firstSet EXCEPT ![k] = CacheEntry(v, cNow)]
                   ELSE firstSet
    /\ UNCHANGED <<cNow, lastGet>>
    /\ UNCHANGED otherThanCache

\* idempotency.ts 17-28: get(k)
CacheGet(k) ==
    /\ cache' = AfterRead(cache, k, cNow)
    /\ lastGet' = [key |-> k, at |-> cNow, result |-> GetResult(cache, k, cNow),
                   set |-> lastSet[k]]
    /\ UNCHANGED <<cNow, lastSet, firstSet>>
    /\ UNCHANGED otherThanCache

\* idempotency.ts 35-45: has(k)
CacheHas(k) ==
    /\ cache' = AfterRead(cache, k, cNow)
    /\ UNCHANGED <<cNow, lastSet, firstSet, lastGet>>
    /\ UNCHANGED otherThanCache

CacheTick ==
    /\ cNow + CacheTickMs <= MaxCacheNow
    /\ cNow' = cNow + CacheTickMs
    /\ UNCHANGED <<cache, lastSet, firstSet, lastGet>>
    /\ UNCHANGED otherThanCache

(***************************************************************************)
(* The rate limiter and the chat route (middleware/rate-limit.ts,          *)
(* routes/chat.ts, server.ts 13-70)                                        *)
(***************************************************************************)
NumReq == 2

\* server.ts 24-25: RATE_LIMIT_MAX and RATE_LIMIT_WINDOW_MS, by default
DefaultRateMax == 100
RateWindowMs == 60000

\* the values RATE_LIMIT_MAX is set to
RateMaxes == {1, DefaultRateMax}

Reqs == 1..NumReq
Ips == {"ip1"}

\* chat.ts 14-16: the X-Idempotency-Key header, or none
NoKey == "none"
HeaderKeys == CacheKeys \cup {NoKey}

\* chat.ts 24: the request body passes ChatCompletionRequestSchema or not
Bodies == {"valid", "malformed"}

\* rate-limit.ts 4-7: RateLimitEntry {count, resetTime}
NoLimit == [count |-> 0, resetTime |-> 0]

\* rate-limit.ts 20-37: check(key) at time t on the key's entry: the result
\* and the entry it leaves
RateCheckExtendsOnRefusal(entry, t, max, window) ==
    IF entry = NoLimit \/ t > entry.resetTime
    THEN [allowed |-> TRUE, remaining |-> max - 1,
          entry |-> [count |-> 1, resetTime |-> t + window]]
    ELSE IF entry.count >= max
    THEN [allowed |-> FALSE, remaining |-> 0,
          entry |-> [entry EXCEPT !.resetTime = t + window]]
    ELSE [allowed |-> TRUE, remaining |-> max - (entry.count + 1),
          entry |-> [entry EXCEPT !.count = @ + 1]]
RateCheckResetsAtResetTime(entry, t, max, window) ==
    IF entry = NoLimit \/ t >= entry.resetTime
    THEN [allowed |-> TRUE, remaining |-> max - 1,
          entry |-> [count |-> 1, resetTime |-> t + window]]
    ELSE IF entry.count >= max
    THEN [allowed |-> FALSE, remaining |-> 0, entry |-> entry]
    ELSE [allowed |-> TRUE, remaining |-> max - (entry.count + 1),
          entry |-> [entry EXCEPT !.count = @ + 1]]
RateCheckAdmitsOneMore(entry, t, max, window) ==
    IF entry = NoLimit \/ t > entry.resetTime
    THEN [allowed |-> TRUE, remaining |-> max - 1,
          entry |-> [count |-> 1, resetTime |-> t + window]]
    ELSE IF entry.count > max
    THEN [allowed |-> FALSE, remaining |-> 0, entry |-> entry]
    ELSE [allowed |-> TRUE, remaining |-> max - (entry.count + 1),
          entry |-> [entry EXCEPT !.count = @ + 1]]
RateCheck(entry, t, max, window) ==
    IF entry = NoLimit \/ t > entry.resetTime
    THEN [allowed |-> TRUE, remaining |-> max - 1,
          entry |-> [count |-> 1, resetTime |-> t + window]]
    ELSE IF entry.count >= max
    THEN [allowed |-> FALSE, remaining |-> 0, entry |-> entry]
    ELSE [allowed |-> TRUE, remaining |-> max - (entry.count + 1),
          entry |-> [entry EXCEPT !.count = @ + 1]]

\* the bodies a reply carries: a chat response, named by the request whose
\* chat call returned it, or an error object
NoBody == [id |-> 0, parsed |-> FALSE, error |-> ""]
ErrorBody(msg) == [id |-> 0, parsed |-> FALSE, error |-> msg]

\* chat.ts 34-39: the response llmService.chat returns to request r
ChatResponseOf(r) == Response(r, FALSE)

\* chat.ts 41: ChatCompletionResponseSchema.parse builds a new object with the
\* fields of the schema
Validated(response) == [response EXCEPT !.parsed = TRUE]

\* chat.ts 24: ChatCompletionRequestSchema.parse(request.body) returns, or
\* throws a ZodError
ParsesAnyBody(body) == TRUE
ParsesRequest(body) == body = "valid"

\* chat.ts 18: `if (cached)`
IsHitNever(cached) == FALSE
IsHit(cached) == cached # Absent

\* chat.ts 41-45: the response is stored when the request carries a key; parse
\* has thrown before on a response that fails the schema
StoresUnvalidated(key, valid) == key # NoKey
Stores(key, valid) == key # NoKey /\ valid

\* chat.ts 43-53: the steps after a validated response
StepsRespondThenStore(key) == IF key # NoKey THEN <<"respond", "store">> ELSE <<"respond">>
StepsOnSuccess(key) == IF key # NoKey THEN <<"store", "respond">> ELSE <<"respond">>

\* one request.  steps: what its handling has done so far; chat: how its
\* llmService.chat call ended; validated: its body was parsed; hit: what the cache lookup returned;
\* after: the requests of its key answered from chat TTL ms or less before it
\* arrived; racing: the requests of its key waiting for chat when it missed;
\* storeSeq: the rank of its cache write among the writes of its key;
\* doneAt: when its response was stored; allowed, remaining: what the rate
\* limiter's check returned for it, remaining being its X-RateLimit-Remaining;
\* disconnected: it waits for chat and its client has closed the connection
ReqInit ==
    [pc |-> "idle", ip |-> "none", key |-> NoKey, body |-> "none", status |-> 0,
     allowed |-> FALSE, remaining |-> 0, disconnected |-> FALSE,
     sent |-> NoBody, xCached |-> FALSE, steps |-> <<>>, chat |-> "none",
     validated |-> FALSE, hit |-> Absent, after |-> {},
     racing |-> {}, storeSeq |-> 0, doneAt |-> 0]

RouteInit ==
    /\ rateMax \in RateMaxes
    /\ limiter = [i \in Ips |-> NoLimit]
    /\ req = [r \in Reqs |-> ReqInit]

RouteIdle ==
    /\ rateMax = DefaultRateMax
    /\ limiter = [i \in Ips |-> NoLimit]
    /\ req = [r \in Reqs |-> ReqInit]

\* the reply is sent: status, body, X-Cached
Reply(rq, status, body, cached) ==
    [rq EXCEPT !.pc = "done", !.status = status, !.sent = body, !.xCached = cached,
               !.disconnected = FALSE,
               !.steps = Append(@, "respond")]

\* the requests of key k answered from their own chat call TTL ms or less ago
AnsweredFromChat(k) ==
    {a \in Reqs : /\ req[a].pc = "done"
                  /\ req[a].key = k
                  /\ req[a].status = 200
                  /\ ~req[a].xCached
                  /\ cNow - req[a].doneAt <= TTL}

\* rate-limit.ts 47-59: the hook records the check's result in the headers; a
\* refused request is answered 429 and, the reply being sent, the route's
\* handler does not run
AfterHooksRunsHandler(rq, result) ==
    [rq EXCEPT !.allowed = result.allowed, !.remaining = result.remaining,
               !.pc = "parsing"]
AfterHooks(rq, result) ==
    LET checked == [rq EXCEPT !.allowed = result.allowed,
                              !.remaining = result.remaining]
    IN  IF result.allowed
        THEN [checked EXCEPT !.pc = "parsing"]
        ELSE Reply(checked, 429, ErrorBody("Too many requests"), FALSE)

\* server.ts 21-27 and rate-limit.ts 44-60: request r arrives from ip with its
\* header and body; the onRequest hooks run; a refused request is answered 429
Arrive(r, ip, key, body) ==
    /\ req[r].pc = "idle"
    /\ \A d \in Reqs : d < r => req[d].pc # "idle"
    /\ LET result == RateCheck(limiter[ip], cNow, rateMax, RateWindowMs)
           rq == [req[r] EXCEPT !.ip = ip, !.key = key, !.body = body,
                                !.steps = <<"ratelimit">>,
                                !.after = IF key = NoKey THEN {} ELSE AnsweredFromChat(key)]
       IN  /\ limiter' = [limiter EXCEPT ![ip] = result.entry]
           /\ req' = [req EXCEPT ![r] = AfterHooks(rq, result)]
    /\ UNCHANGED <<rateMax, cNow, cache>>
    /\ UNCHANGED otherThanRoute

\* chat.ts 13-34 and 54-61: the handler up to `await llmService.chat(...)`
Handle(r) ==
    /\ req[r].pc = "parsing"
    /\ LET key == req[r].key
           cached == IF key = NoKey THEN Absent ELSE GetResult(cache, key, cNow)
           looked == IF key = NoKey THEN req[r]
                     ELSE [req[r] EXCEPT !.steps = Append(@, "lookup"), !.hit = cached]
       IN  /\ cache' = IF key = NoKey THEN cache ELSE AfterRead(cache, key, cNow)
           /\ req' = [req EXCEPT ![r] =
                        IF key # NoKey /\ IsHit(cached)
                        THEN Reply(looked, 200, cached, TRUE)
                        ELSE IF ~ParsesRequest(req[r].body)
                        THEN Reply([looked EXCEPT !.validated = TRUE], 400,
                                   ErrorBody("Validation error"), FALSE)
                        ELSE [looked EXCEPT !.pc = "chat", !.validated = TRUE,
                                            !.steps = Append(@, "chat"),
                                            !.racing = {a \in Reqs \ {r} :
                                                req[a].pc = "chat" /\ req[a].key = key
                                                /\ key # NoKey}]]
    /\ UNCHANGED <<rateMax, limiter, cNow>>
    /\ UNCHANGED otherThanRoute

\* the rank of a new cache write among the writes of key k
NextStoreSeq(k) ==
    1 + Cardinality({a \in Reqs : req[a].key = k /\ req[a].storeSeq > 0})

\* chat.ts 34-53 and 54-61: llmService.chat returns a response, which passes
\* ChatCompletionResponseSchema or not
ChatReturns(r, valid) ==
    /\ req[r].pc = "chat"
    /\ LET key == req[r].key
           response == Validated(ChatResponseOf(r))
           returned == [req[r] EXCEPT !.chat = IF valid THEN "returned" ELSE "invalid"]
       IN  /\ cache' = IF Stores(key, valid)
                       THEN AfterSet(cache, key, response, cNow)
                       ELSE cache
           /\ req' = [req EXCEPT ![r] =
                        IF valid
                        THEN [returned EXCEPT
                                 !.pc = "done", !.status = 200, !.sent = response,
                                 !.disconnected = FALSE,
                                 !.steps = @ \o StepsOnSuccess(key),
                                 !.storeSeq = IF key # NoKey THEN NextStoreSeq(key) ELSE 0,
                                 !.doneAt = IF key # NoKey THEN cNow ELSE 0]
                        ELSE Reply(returned, 400, ErrorBody("Validation error"), FALSE)]
    /\ UNCHANGED <<rateMax, limiter, cNow>>
    /\ UNCHANGED otherThanRoute

\* chat.ts 62 and server.ts 47-66: llmService.chat throws; the error handler
\* answers 500
ChatThrows(r) ==
    /\ req[r].pc = "chat"
    /\ req' = [req EXCEPT ![r] =
                 Reply([@ EXCEPT !.chat = "threw"], 500,
                       ErrorBody("Internal server error"), FALSE)]
    /\ UNCHANGED <<rateMax, limiter, cNow, cache>>
    /\ UNCHANGED otherThanRoute

\* the client of request r closes the connection while the handler awaits
\* llmService.chat (chat.ts 34): the handler listens to no close event and
\* passes no abort signal, so nothing of the request's handling changes
Disconnect(r) ==
    /\ req[r].pc = "chat"
    /\ ~req[r].disconnected
    /\ req' = [req EXCEPT ![r].disconnected = TRUE]
    /\ UNCHANGED <<rateMax, limiter, cNow, cache>>
    /\ UNCHANGED otherThanRoute

\* CacheTickMs pass, counted from the arrival of the first request; no request
\* is between its hooks and its handler that long
RouteTick ==
    /\ cNow + CacheTickMs <= MaxCacheNow
    /\ \E r \in Reqs : req[r].pc # "idle"
    /\ \A r \in Reqs : req[r].pc # "parsing"
    /\ cNow' = cNow + CacheTickMs
    /\ UNCHANGED <<rateMax, limiter, req, cache>>
    /\ UNCHANGED otherThanRoute

(***************************************************************************)
(* The rate limiter alone (middleware/rate-limit.ts 9-42)                  *)
(***************************************************************************)
NumChecks == 4
MaxRlTicks == 4

\* the (maxRequests, windowMs) pairs a RateLimiter is constructed with; time
\* is counted in ms
MaxRequestsValues == {0, 1, 2}
WindowMsValues == {0, 2}

RateKeys == {"ip-1", "ip-2"}

\* rate-limit.ts 14-18: new RateLimiter(maxRequests, windowMs)
LimiterInit ==
    /\ rlNow = 0
    /\ maxRequests \in MaxRequestsValues
    /\ windowMs \in WindowMsValues
    /\ requests = [k \in RateKeys |-> NoLimit]
    /\ checks = <<>>

\* rate-limit.ts 14: the limiter of the defaults, not used
LimiterIdle ==
    /\ rlNow = 0
    /\ maxRequests = DefaultRateMax
    /\ windowMs = RateWindowMs
    /\ requests = [k \in RateKeys |-> NoLimit]
    /\ checks = <<>>

\* rate-limit.ts 20-37: check(key); the call is synchronous, so it is one step
Check(key) ==
    /\ Len(checks) < NumChecks
    /\ LET result == RateCheck(requests[key], rlNow, maxRequests, windowMs)
       IN  /\ requests' = [requests EXCEPT ![key] = result.entry]
           /\ checks' = Append(checks, [key |-> key, at |-> rlNow,
                                        allowed |-> result.allowed,
                                        remaining |-> result.remaining,
                                        resetTime |-> result.entry.resetTime])
    /\ UNCHANGED <<rlNow, maxRequests, windowMs>>
    /\ UNCHANGED otherThanLimiter

\* one millisecond passes
RlTick ==
    /\ rlNow < MaxRlTicks
    /\ rlNow' = rlNow + 1
    /\ UNCHANGED <<maxRequests, windowMs, requests, checks>>
    /\ UNCHANGED otherThanLimiter

(***************************************************************************)
(* The provider adapters (providers/openai.ts, providers/index.ts 7-57)    *)
(***************************************************************************)
MaxMessages == 3

\* unnamed/part_000 1-4 and unnamed/part_001 3-6: Message {role, content}
Roles == {"system", "user", "assistant"}
Contents == {"a", "b"}
Messages == [role : Roles, content : Contents]

\* the message sequences of a request: unnamed/part_001 10, at least one
RECURSIVE SeqsUpTo(_, _)
SeqsUpTo(S, n) ==
    IF n = 0 THEN {<<>>}
    ELSE LET shorter == SeqsUpTo(S, n - 1)
         IN  shorter \cup {Append(q, x) : q \in {t \in shorter : Len(t) = n - 1}, x \in S}
MessageSeqs == SeqsUpTo(Messages, MaxMessages) \ {<<>>}

\* an error without a status (APIConnectionError, and every error that is not
\* an APIError)
NoStatus == 0

\* the HTTP statuses of an APIError
Statuses == {400, 401, 404, 429, 500, 503}

\* what the vendor's client does with a call: it resolves with a response the
\* adapter can map, resolves with one whose mapping throws a TypeError, or
\* rejects with an APIError (with or without status) or with another error
VendorError(api, status) == [api |-> api, status |-> status]
VendorOutcomes ==
    {[kind |-> "response", error |-> VendorError(FALSE, NoStatus)],
     [kind |-> "unmappable", error |-> VendorError(FALSE, NoStatus)]}
    \cup {[kind |-> "rejects", error |-> VendorError(TRUE, st)] : st \in Statuses \cup {NoStatus}}
    \cup {[kind |-> "rejects", error |-> VendorError(FALSE, NoStatus)]}

\* openai.ts 41-46: OpenAIProvider.isRetryable
OpenAIIsRetryableOn5xxOnly(error) ==
    IF error.api
    THEN IF error.status # NoStatus THEN error.status >= 500 ELSE TRUE
    ELSE TRUE
OpenAIIsRetryable(error) ==
    IF error.api
    THEN IF error.status # NoStatus
         THEN error.status >= 500 \/ error.status = 429
         ELSE TRUE
    ELSE TRUE

\* providers/index.ts 51-56: AnthropicProvider.isRetryable
AnthropicIsRetryable(error) ==
    IF error.api
    THEN IF error.status # NoStatus
         THEN error.status >= 500 \/ error.status = 429
         ELSE TRUE
    ELSE TRUE

IsRetryable(name, error) ==
    IF name = "openai" THEN OpenAIIsRetryable(error) ELSE AnthropicIsRetryable(error)

\* providers/index.ts 20: request.messages.find(m => m.role === 'system')
NoSystem == "undefined"
SystemIndexes(messages) == {i \in 1..Len(messages) : messages[i].role = "system"}
SystemMsg(messages) ==
    IF SystemIndexes(messages) = {} THEN NoSystem
    ELSE messages[CHOOSE i \in SystemIndexes(messages) :
                      \A j \in SystemIndexes(messages) : i <= j].content

\* providers/index.ts 21: request.messages.filter(m => m.role !== 'system')
IsNotSystem(m) == m.role # "system"
NonSystem(messages) == SelectSeq(messages, IsNotSystem)

\* openai.ts 14-19 and providers/index.ts 20-29: the arguments of the client call
NoVendorCall == [system |-> NoSystem, messages |-> <<>>]
VendorCallOf(name, messages) ==
    IF name = "openai"
    THEN [system |-> NoSystem, messages |-> messages]
    ELSE [system |-> SystemMsg(messages), messages |-> NonSystem(messages)]

\* how the promise chat returns settled, and with which ProviderResult
NotSettled == [settle |-> "none", success |-> FALSE, retryable |-> FALSE,
               error |-> VendorError(FALSE, NoStatus)]
Success == [settle |-> "fulfilled", success |-> TRUE, retryable |-> FALSE,
            error |-> VendorError(FALSE, NoStatus)]
Failure(name, error) ==
    [settle |-> "fulfilled", success |-> FALSE, retryable |-> IsRetryable(name, error),
     error |-> error]

AdapterInit ==
    /\ adapter \in Providers
    /\ chatRequest \in MessageSeqs
    /\ vendor \in VendorOutcomes
    /\ aPc = "idle"
    /\ vendorCall = NoVendorCall
    /\ chatResult = NotSettled

AdapterIdle ==
    /\ adapter = "openai"
    /\ chatRequest = <<>>
    /\ vendor = [kind |-> "response", error |-> VendorError(FALSE, NoStatus)]
    /\ aPc = "idle"
    /\ vendorCall = NoVendorCall
    /\ chatResult = NotSettled

\* openai.ts 12-19, providers/index.ts 18-29: chat(request) up to the await
AdapterChat ==
    /\ aPc = "idle"
    /\ chatRequest # <<>>
    /\ aPc' = "awaiting"
    /\ vendorCall' = VendorCallOf(adapter, chatRequest)
    /\ UNCHANGED <<adapter, chatRequest, vendor, chatResult>>
    /\ UNCHANGED otherThanAdapter

\* openai.ts 21-34, providers/index.ts 31-44: the client resolved and the
\* response is mapped
VendorResolves ==
    /\ aPc = "awaiting"
    /\ vendor.kind = "response"
    /\ aPc' = "done"
    /\ chatResult' = Success
    /\ UNCHANGED <<adapter, chatRequest, vendor, vendorCall>>
    /\ UNCHANGED otherThanAdapter

\* openai.ts 35-38, providers/index.ts 45-48: the client rejected; the catch
\* returns the failure
VendorRejects ==
    /\ aPc = "awaiting"
    /\ vendor.kind = "rejects"
    /\ aPc' = "done"
    /\ chatResult' = Failure(adapter, vendor.error)
    /\ UNCHANGED <<adapter, chatRequest, vendor, vendorCall>>
    /\ UNCHANGED otherThanAdapter

\* openai.ts 24-38, providers/index.ts 34-48: the client resolved with a
\* response whose mapping throws (a TypeError, inside the try)
MappingThrows ==
    /\ aPc = "awaiting"
    /\ vendor.kind = "unmappable"
    /\ aPc' = "done"
    /\ chatResult' = Failure(adapter, vendor.error)
    /\ UNCHANGED <<adapter, chatRequest, vendor, vendorCall>>
    /\ UNCHANGED otherThanAdapter

(***************************************************************************)
(* The specifications                                                      *)
(***************************************************************************)
Init == RetryIdle /\ ServiceInit /\ CoalesceInit /\ CacheInit /\ RouteIdle /\ LimiterIdle /\ AdapterIdle
Spec == Init /\ [][Next]_vars

\* a provider that cannot stay pending settles its call
AnswersInTime(c) ==
    /\ call[c].pc = "inflight"
    /\ "hang" \notin behaviour[call[c].provider]
    /\ \E o \in Answers : ProviderAnswers(c, o)

\* what the event loop guarantees: time passes, a timer that is due fires
\* (the breaker's timeout timer, the setTimeout of retry.ts 27).  Nothing
\* is assumed of a provider that can stay pending, nor of the callers
Fairness ==
    /\ WF_vars(Tick)
    /\ \A c \in Calls : WF_vars(TimeoutFires(c))
    /\ \A c \in Calls : WF_vars(Wake(c))
    /\ \A c \in Calls : WF_vars(AnswersInTime(c))
SpecLive == Init /\ [][Next]_vars /\ Fairness

InitRetry == RetryInit /\ ServiceIdle /\ CoalesceInit /\ CacheInit /\ RouteIdle /\ LimiterIdle /\ AdapterIdle
NextRetry ==
    \/ RetryStart
    \/ RetryFnResolves
    \/ RetryFnRejects
    \/ RetryWake
SpecRetry == InitRetry /\ [][NextRetry]_vars

InitCoalesce == RetryIdle /\ ServiceIdle /\ CoalesceInit /\ CacheInit /\ RouteIdle /\ LimiterIdle /\ AdapterIdle
NextCoalesce ==
    \/ \E e \in Execs, k \in Keys : Execute(e, k)
    \/ \E e \in Execs, ok \in BOOLEAN : FnSettles(e, ok)
    \/ Clear
    \/ CoTick
SpecCoalesce == InitCoalesce /\ [][NextCoalesce]_vars

InitCache == RetryIdle /\ ServiceIdle /\ CoalesceInit /\ CacheInit /\ RouteIdle /\ LimiterIdle /\ AdapterIdle
NextCache ==
    \/ \E k \in CacheKeys, v \in Responses : CacheSet(k, v)
    \/ \E k \in CacheKeys : CacheGet(k)
    \/ \E k \in CacheKeys : CacheHas(k)
    \/ CacheTick
SpecCache == InitCache /\ [][NextCache]_vars

InitRoute == RetryIdle /\ ServiceIdle /\ CoalesceInit /\ CacheInit /\ RouteInit /\ LimiterIdle /\ AdapterIdle
NextRoute ==
    \/ \E r \in Reqs, ip \in Ips, key \in HeaderKeys, body \in Bodies : Arrive(r, ip, key, body)
    \/ \E r \in Reqs : Handle(r)
    \/ \E r \in Reqs, valid \in BOOLEAN : ChatReturns(r, valid)
    \/ \E r \in Reqs : ChatThrows(r)
    \/ \E r \in Reqs : Disconnect(r)
    \/ RouteTick
SpecRoute == InitRoute /\ [][NextRoute]_vars

InitLimiter ==
    /\ RetryIdle /\ ServiceIdle /\ CoalesceInit /\ CacheInit /\ RouteIdle /\ LimiterInit
    /\ AdapterIdle
NextLimiter ==
    \/ \E key \in RateKeys : Check(key)
    \/ RlTick
SpecLimiter == InitLimiter /\ [][NextLimiter]_vars

InitAdapter ==
    /\ RetryIdle /\ ServiceIdle /\ CoalesceInit /\ CacheInit /\ RouteIdle /\ LimiterIdle
    /\ AdapterInit
NextAdapter ==
    \/ AdapterChat
    \/ VendorResolves
    \/ VendorRejects
    \/ MappingThrows
SpecAdapter == InitAdapter /\ [][NextAdapter]_vars

(***************************************************************************)
(* Claims about retryWithBackoff (SpecRetry)                               *)
(***************************************************************************)
RetryDone == rPc \in {"returned", "thrown"}

\* fn fails on its first n-1 invocations and succeeds on the n-th
FailsThenSucceeds(n) ==
    /\ n >= 1
    /\ \A k \in 1..(n - 1) : ~rFn[k].ok
    /\ rFn[n].ok

\* fn fails on each of its first n invocations
AlwaysFails(n) == n >= 1 /\ \A k \in 1..n : ~rFn[k].ok

\* C1: with maxAttempts = n >= 1 and an fn that fails n-1 times and then
\* succeeds, fn is never invoked more than n times, and a finished driver has
\* returned the value of the n-th invocation after exactly n invocations.
C1_SucceedsOnNthAttempt ==
    FailsThenSucceeds(rOpts.maxAttempts) =>
        /\ rCalls <= rOpts.maxAttempts
        /\ RetryDone =>
              /\ rResult = Returned(rFn[rOpts.maxAttempts].value)
              /\ rCalls = rOpts.maxAttempts

C1_Witness ==
    /\ rOpts.maxAttempts = MaxAttemptsBound
    /\ FailsThenSucceeds(rOpts.maxAttempts)
    /\ rPc = "returned"
    /\ rCalls = MaxAttemptsBound

\* C2: with maxAttempts = n >= 1 and an fn that always fails, fn is never
\* invoked more than n times, and a finished driver has thrown, after exactly n
\* invocations, the error whose message holds n and the message of the error
\* of the n-th invocation.
C2_ThrowsAfterMaxAttempts ==
    AlwaysFails(rOpts.maxAttempts) =>
        /\ rCalls <= rOpts.maxAttempts
        /\ RetryDone =>
              /\ rPc = "thrown"
              /\ rCalls = rOpts.maxAttempts
              /\ rResult.error.msg = "Max retry attempts reached"
              /\ rResult.error.n = rOpts.maxAttempts
              /\ rResult.error.detail = rFn[rOpts.maxAttempts].error.msg

C2_Witness ==
    /\ rOpts.maxAttempts = MaxAttemptsBound
    /\ AlwaysFails(rOpts.maxAttempts)
    /\ rFn[1].error # rFn[MaxAttemptsBound].error
    /\ rPc = "thrown"
    /\ rCalls = MaxAttemptsBound

(***************************************************************************)
(* Claims about LLMService.chat and the breakers (Spec)                    *)
(***************************************************************************)
CallsOn(p) == {c \in Calls : call[c].provider = p}
InFlightOn(p) == {c \in CallsOn(p) : call[c].pc = "inflight"}

\* C3: a chat call ends on a provider result {success:false, retryable:true}
\* only when it has made its 3 attempts; against a provider that always returns
\* such results the provider has then been invoked 3 times.
C3_RetryableResultIsRetried ==
    \A c \in Calls :
        (call[c].pc = "done" /\ call[c].outcome = "errRetryable") =>
            /\ call[c].attempt = MaxAttempts
            /\ behaviour[call[c].provider] = {"errRetryable"} => call[c].invoked = MaxAttempts

\* C4, as stated: once the provider has returned {success:false,
\* retryable:false} to a chat call, that call has ended with the provider's
\* error, has invoked the provider exactly once and has never slept.
C4_NonRetryableInvokedOnce ==
    \A c \in Calls :
        call[c].outcome = "errFatal" =>
            /\ call[c].pc = "done"
            /\ call[c].result = Thrown(ProviderResult("errFatal").error)
            /\ call[c].invoked = 1
            /\ call[c].slept = 0

\* C4, amended: once the provider has returned {success:false,
\* retryable:false} to a chat call, that call has ended with the provider's
\* error, unwrapped, so that no further attempt or sleep follows; when this was
\* the call's first attempt the provider was invoked exactly once and the call
\* never slept.
C4_NonRetryableEndsChat ==
    \A c \in Calls :
        call[c].outcome = "errFatal" =>
            /\ call[c].pc = "done"
            /\ call[c].result = Thrown(ProviderResult("errFatal").error)
            /\ call[c].attempt = 1 => (call[c].invoked = 1 /\ call[c].slept = 0)

C4_Witness ==
    \E c \in Calls :
        /\ call[c].outcome = "errFatal"
        /\ call[c].pc = "done"
        /\ call[c].attempt = 1

\* C5: a chat call whose provider name (given, or the default when none is
\* given) is not in the registry ends at once with 'Provider not found: <name>',
\* and the step changes no breaker and invokes no provider.
C5_ProviderNotFound ==
    [][\A c \in Calls, name \in RequestNames :
          (Chat(c, name) /\ RequestedName(name) \notin Providers) =>
              /\ breaker' = breaker
              /\ call'[c].pc = "done"
              /\ call'[c].result = Thrown(ProviderNotFound(RequestedName(name)))
              /\ call'[c].invoked = 0
              /\ call'[c].lastFire = NotFired
              /\ \A d \in Calls \ {c} : call'[d] = call[d]]_vars

C5_Witness ==
    /\ defaultProvider = "openai"
    /\ \E c \in Calls :
          /\ call[c].pc = "done"
          /\ call[c].result = Thrown(ProviderNotFound("azure"))
    /\ \E p \in Providers : breaker[p].state = "open"

\* C6: a fire that finds the breaker Open resolves with the fallback result
\* and does not invoke provider.chat.
C6_OpenFireResolvesWithFallback ==
    \A c \in Calls :
        call[c].firedIn = "open" =>
            /\ call[c].refused
            /\ call[c].lastFire = Resolved(FallbackResult)

\* C7: against a provider whose every chat call returns an error result marked
\* retryable, the breaker has left Closed by the time every chat call of the
\* run has been made against it and has ended.
C7_AlwaysRetryableOpensBreaker ==
    \A p \in Providers :
        (/\ behaviour[p] = {"errRetryable"}
         /\ \A c \in Calls : call[c].pc = "done" /\ call[c].provider = p)
            => breaker[p].state # "closed"

\* the breaker of such a provider never leaves Closed
AlwaysRetryableStaysClosed ==
    \A p \in Providers : behaviour[p] = {"errRetryable"} => breaker[p].state = "closed"

HalfOpenAtMostOneProbe ==
    \A p \in Providers : breaker[p].state = "halfOpen" => Cardinality(InFlightOn(p)) <= 1

\* C9: while a breaker is HalfOpen at most one provider call is in flight, and
\* a fire refused in HalfOpen has got the fallback result.
C9_HalfOpenOneProbeOthersFallback ==
    /\ HalfOpenAtMostOneProbe
    /\ \A c \in Calls :
          (call[c].firedIn = "halfOpen" /\ call[c].refused) =>
              call[c].lastFire = Resolved(FallbackResult)

OpenUntilResetTimeout ==
    [][\A p \in Providers :
          (breaker[p].state = "open" /\ breaker'[p].state # "open") =>
              /\ now - breaker[p].openedAt >= ResetTimeout
              /\ breaker'[p].state = "halfOpen"
              /\ breaker'[p].pendingClose]_vars

\* C11: a breaker is HalfOpen only resetTimeout ms or more after openedAt,
\* every fire that found it Open was refused and got the fallback result, and
\* the probe is a fire admitted in HalfOpen.
C11_OpenUntilResetThenProbe ==
    /\ \A p \in Providers :
          breaker[p].state = "halfOpen" => now - breaker[p].openedAt >= ResetTimeout
    /\ \A c \in Calls :
          /\ call[c].probe => (call[c].firedIn = "halfOpen" /\ ~call[c].refused)
          /\ call[c].firedIn = "open" =>
                (call[c].refused /\ call[c].lastFire = Resolved(FallbackResult))

(***************************************************************************)
(* Claims about RequestCoalescer (SpecCoalesce)                            *)
(***************************************************************************)
Invoked == {e \in Execs : exec[e].invoked}

\* an execute call that did not invoke fn returned a promise of its key that
\* was pending and younger than windowMs
JoinedPromiseWasLive ==
    \A e \in Execs :
        (exec[e].state = "called" /\ ~exec[e].invoked) => exec[e].promise \in exec[e].live

\* C12: with execute and settlements only, a caller that calls execute while a
\* call f of its key is pending and younger than windowMs does not invoke fn
\* and observes the outcome of f.
C12_CallersShareOneInvocation ==
    ~cleared =>
        \A e \in Execs : \A f \in exec[e].live :
            /\ ~exec[e].invoked
            /\ Observed(e) = Observed(f)

\* C13: with execute and settlements only, no execute call invokes fn while a
\* call of its key is pending and younger than windowMs.
C13_OneInvocationPerKeyAndWindow ==
    ~cleared => \A e \in Invoked : exec[e].live = {}

\* C14: once every call of fn has settled the map is empty, an entry never
\* outlives the call it holds, and with a single call of fn so far (and no
\* clear()) pendingCount is 1 while it is pending and 0 after.
C14_EntriesRemovedOnSettle ==
    /\ (\A e \in Invoked : exec[e].status # "pending") => PendingCount = 0
    /\ \A k \in Keys :
          pending[k] # NoEntry =>
              /\ exec[pending[k].promise].status = "pending"
              /\ exec[pending[k].promise].key = k
    /\ (~cleared /\ Cardinality(Invoked) = 1) =>
          \A e \in Invoked : PendingCount = IF exec[e].status = "pending" THEN 1 ELSE 0

\* two calls of fn for one key, the later made while the earlier was still
\* pending, have both settled, one of them by rejecting, and the map is empty
C14_Witness ==
    /\ ~cleared
    /\ PendingCount = 0
    /\ \E e, f \in Invoked :
          /\ e < f
          /\ exec[e].key = exec[f].key
          /\ exec[e].status = "rejected"
          /\ exec[f].status = "resolved"
          /\ exec[f].live = {}

(***************************************************************************)
(* Claims about IdempotencyCache (SpecCache)                               *)
(***************************************************************************)
\* C15: a get(k) at time t after a latest set(k, v) at time s returned v if
\* t - s <= TTL and absent otherwise; a get of a key never set returned absent.
C15_GetReturnsValueIffWithinTTL ==
    lastGet.key \in CacheKeys =>
        IF lastGet.set = NoCacheEntry
        THEN lastGet.result = Absent
        ELSE IF lastGet.at - lastGet.set.timestamp <= TTL
             THEN lastGet.result = lastGet.set.response
             ELSE lastGet.result = Absent

\* a get exactly TTL ms after the set returned the response, and the entry
\* has since expired and been deleted
C15_Witness ==
    /\ lastGet.key \in CacheKeys
    /\ lastGet.set # NoCacheEntry
    /\ lastGet.at - lastGet.set.timestamp = TTL
    /\ lastGet.result = lastGet.set.response
    /\ cNow > lastGet.at
    /\ cache[lastGet.key] = NoCacheEntry

(***************************************************************************)
(* Claims about the chat route (SpecRoute)                                 *)
(***************************************************************************)
StepsOf(r) == {req[r].steps[i] : i \in 1..Len(req[r].steps)}

C17_CacheHitServedAsIs ==
    [][\A r \in Reqs :
          (/\ req[r].pc = "parsing"
           /\ req'[r].pc # "parsing"
           /\ req[r].key # NoKey
           /\ GetResult(cache, req[r].key, cNow) # Absent) =>
              /\ req'[r].pc = "done"
              /\ req'[r].status = 200
              /\ req'[r].xCached
              /\ req'[r].sent = cache[req[r].key].response
              /\ ~req'[r].validated
              /\ req'[r].chat = "none"
              /\ req'[r].steps = <<"ratelimit", "lookup", "respond">>
              /\ cache' = cache]_vars

\* a request with a malformed body has been served another request's response
C17_Witness ==
    \E r, a \in Reqs :
        /\ r # a
        /\ req[r].body = "malformed"
        /\ req[r].status = 200
        /\ req[r].xCached
        /\ req[r].sent = Validated(ChatResponseOf(a))

StepRank(step) ==
    CASE step = "ratelimit" -> 1
      [] step = "lookup" -> 2
      [] step = "chat" -> 3
      [] step = "store" -> 4
      [] step = "respond" -> 5

\* C19: the steps of one request happen in the order rate-limit check, cache
\* lookup, llmService.chat, cache store, response; the first is the rate-limit
\* check and the last, once the request is done, the response.
C19_StepsInOrder ==
    \A r \in Reqs :
        LET steps == req[r].steps
        IN  /\ \A i, j \in 1..Len(steps) : i < j => StepRank(steps[i]) < StepRank(steps[j])
            /\ req[r].pc # "idle" => steps[1] = "ratelimit"
            /\ req[r].pc = "done" <=> (steps # <<>> /\ steps[Len(steps)] = "respond")

C19_Witness ==
    \E r \in Reqs : req[r].steps = <<"ratelimit", "lookup", "chat", "store", "respond">>

\* C20: the entry of a key, while it is there, holds the response of the
\* request that wrote last among the requests of that key.
C20_LastWriterWins ==
    \A k \in CacheKeys :
        \A w \in Reqs :
            (/\ req[w].key = k
             /\ req[w].storeSeq > 0
             /\ \A x \in Reqs : req[x].key = k => req[x].storeSeq <= req[w].storeSeq
             /\ cache[k] # NoCacheEntry) =>
                cache[k].response = Validated(ChatResponseOf(w))

\* two requests of one key both missed the cache and both called
\* llmService.chat at once; both succeeded, and the one that called first wrote
\* last: the cache holds its response
C20_Witness ==
    \E a, b \in Reqs :
        /\ a \in req[b].racing
        /\ req[a].status = 200 /\ req[b].status = 200
        /\ req[a].storeSeq > req[b].storeSeq
        /\ req[b].storeSeq > 0
        /\ cache[req[a].key].response = Validated(ChatResponseOf(a))

\* the checks on the key of check i before it, and the latest of them
EarlierOnKey(i) == {j \in 1..(i - 1) : checks[j].key = checks[i].key}
PreviousOnKey(i) == CHOOSE j \in EarlierOnKey(i) : \A h \in EarlierOnKey(i) : h <= j

\* check i is in the window the checks before it on its key left: the window
\* lasts until resetTime has elapsed
InSameWindow(i) ==
    EarlierOnKey(i) # {} /\ checks[i].at <= checks[PreviousOnKey(i)].resetTime
AfterReset(i) ==
    EarlierOnKey(i) # {} /\ checks[i].at > checks[PreviousOnKey(i)].resetTime

\* the checks before i allowed on its key in the window check i falls in
AllowedBefore(i) ==
    {j \in EarlierOnKey(i) : /\ checks[j].allowed
                             /\ checks[j].resetTime = checks[PreviousOnKey(i)].resetTime}

\* C21: for every (maxRequests, windowMs), a check on a key that follows
\* maxRequests allowed checks of the same window returns allowed = false and
\* remaining = 0, and the first check on a key after its resetTime has elapsed
\* returns allowed = true and remaining = maxRequests - 1
C21_BlocksOverLimitAndResets ==
    \A i \in 1..Len(checks) :
        /\ (InSameWindow(i) /\ Cardinality(AllowedBefore(i)) = maxRequests)
              => (~checks[i].allowed /\ checks[i].remaining = 0)
        /\ AfterReset(i)
              => (checks[i].allowed /\ checks[i].remaining = maxRequests - 1)

\* maxRequests = 2: two checks allowed, the third refused in the same window,
\* and the check after resetTime allowed again
C21_Witness ==
    /\ maxRequests = 2
    /\ Len(checks) = 4
    /\ \A i \in 1..4 : checks[i].key = "ip-1"
    /\ checks[1].allowed /\ checks[2].allowed
    /\ InSameWindow(3) /\ ~checks[3].allowed /\ checks[3].remaining = 0
    /\ AfterReset(4) /\ checks[4].allowed /\ checks[4].remaining = 1

\* check i creates the entry of its key: the first check on the key, or the
\* first after resetTime has elapsed
CreatesWindow(i) == EarlierOnKey(i) = {} \/ AfterReset(i)

\* the checks allowed on the key of check i in the window check i created
AllowedInWindowOf(i) ==
    {j \in i..Len(checks) : /\ checks[j].key = checks[i].key
                            /\ checks[j].resetTime = checks[i].resetTime
                            /\ checks[j].allowed}

\* a limiter of a positive maxRequests admits at most maxRequests checks of a
\* key in each of its windows
PositiveMaxBoundsWindow ==
    maxRequests >= 1 =>
        \A i \in 1..Len(checks) :
            CreatesWindow(i) => Cardinality(AllowedInWindowOf(i)) <= maxRequests

\* C22: for every key and every non-negative maxRequests, at most maxRequests
\* checks on the key return allowed = true in one fixed window, from the check
\* that creates the entry until the entry's resetTime
C22_WindowAdmitsAtMostMax ==
    \A i \in 1..Len(checks) :
        CreatesWindow(i) => Cardinality(AllowedInWindowOf(i)) <= maxRequests

\* the checks allowed on the key of check i from check i to check j
AllowedBetween(i, j) ==
    {h \in i..j : checks[h].key = checks[i].key /\ checks[h].allowed}

\* C23: sliding window: for every key, the checks of the key made less than
\* windowMs apart hold at most maxRequests allowed ones, wherever the
\* interval starts (stated for maxRequests >= 1)
C23_SlidingWindow ==
    maxRequests >= 1 =>
        \A i \in 1..Len(checks) : \A j \in i..Len(checks) :
            checks[j].at - checks[i].at < windowMs
                => Cardinality(AllowedBetween(i, j)) <= maxRequests

\* the requests whose rate-limit check returned allowed = false
Refused == {r \in Reqs : req[r].pc # "idle" /\ ~req[r].allowed}

\* C24: a request whose rate-limit check returns allowed = false is answered
\* 429 with error 'Too many requests' and X-RateLimit-Remaining 0, and nothing
\* else happens for it: no lookup in the idempotency cache, no store, no
\* validation and no llmService.chat call
C24_RefusedRequestStopsAt429 ==
    \A r \in Refused :
        /\ req[r].pc = "done"
        /\ req[r].status = 429
        /\ req[r].sent = ErrorBody("Too many requests")
        /\ req[r].remaining = 0
        /\ req[r].steps = <<"ratelimit", "respond">>
        /\ ~req[r].validated
        /\ req[r].chat = "none"
        /\ req[r].hit = Absent
        /\ req[r].storeSeq = 0
        /\ ~req[r].xCached

\* RATE_LIMIT_MAX = 1: the second request of the ip is refused although its
\* key is in the cache and its body is valid
C24_Witness ==
    \E a \in Reqs, r \in Refused :
        /\ req[a].pc = "done" /\ req[a].status = 200 /\ req[a].storeSeq = 1
        /\ req[r].key = req[a].key
        /\ req[r].body = "valid"
        /\ cache[req[r].key].response = req[a].sent

\* C25: the timeout field of the request bounds the whole chat call: no attempt
\* of a call is started once timeout ms have passed since the call was made
C25_NoAttemptAfterRequestTimeout ==
    [][\A c \in Calls :
          (call[c].attempt >= 1 /\ call'[c].attempt > call[c].attempt)
              => now - call[c].began < call[c].timeout]_vars

\* C26: the response of a request whose client disconnected while it waited
\* for llmService.chat is never written to the idempotency cache
C26_DisconnectedNeverStored ==
    [][\A r \in Reqs :
          req[r].disconnected => req'[r].storeSeq = 0]_vars

\* the requests that reached the handler with a body that fails the request
\* schema and whose key, if any, did not hit the cache
MalformedMisses ==
    {r \in Reqs : /\ req[r].pc \notin {"idle", "parsing"}
                  /\ req[r].allowed
                  /\ req[r].body = "malformed"
                  /\ req[r].hit = Absent}

\* C27: a request whose body fails the request schema and whose key does not
\* hit the cache is answered 400 'Validation error'; llmService.chat is not
\* invoked and the cache is not written for it
C27_MalformedBodyAnswered400 ==
    \A r \in MalformedMisses :
        /\ req[r].pc = "done"
        /\ req[r].status = 400
        /\ req[r].sent = ErrorBody("Validation error")
        /\ req[r].chat = "none"
        /\ \A i \in 1..Len(req[r].steps) : req[r].steps[i] \notin {"chat", "store"}
        /\ req[r].storeSeq = 0

\* a malformed request with a key that is not in the cache, answered
C27_Witness ==
    \E r \in MalformedMisses :
        /\ req[r].key # NoKey
        /\ req[r].steps = <<"ratelimit", "lookup", "respond">>
        /\ cache[req[r].key] = NoCacheEntry

\* the vendor failure of the call: the error its catch block received
HasStatus(error) == error.api /\ error.status # NoStatus

\* C28: chat of both adapters never throws, and a failure is classified by
\* its error alone: an API error with status >= 500 or = 429 is retryable, an
\* API error with another status is not, an error without status is
C28_AdaptersClassifyFailures ==
    aPc = "done" =>
        /\ chatResult.settle = "fulfilled"
        /\ chatResult.success <=> vendor.kind = "response"
        /\ ~chatResult.success =>
              /\ (HasStatus(vendor.error)
                     /\ (vendor.error.status >= 500 \/ vendor.error.status = 429))
                    => chatResult.retryable
              /\ (HasStatus(vendor.error)
                     /\ vendor.error.status < 500 /\ vendor.error.status # 429)
                    => ~chatResult.retryable
              /\ ~HasStatus(vendor.error) => chatResult.retryable

\* the OpenAI client rejected with status 429 and chat returned a retryable
\* failure
C28_Witness ==
    /\ adapter = "openai"
    /\ aPc = "done"
    /\ vendor.kind = "rejects"
    /\ vendor.error = VendorError(TRUE, 429)
    /\ chatResult.settle = "fulfilled" /\ ~chatResult.success /\ chatResult.retryable

\* a sequence without its i-th element
WithoutIndex(q, i) == SubSeq(q, 1, i - 1) \o SubSeq(q, i + 1, Len(q))
FirstSystemIndex(messages) ==
    CHOOSE i \in SystemIndexes(messages) : \A j \in SystemIndexes(messages) : i <= j

\* C29: AnthropicProvider.chat sends the first system message, if any, as the
\* system directive and every other message of the request, in its original
\* order, as the message list
C29_FirstSystemLiftedOthersKept ==
    (adapter = "anthropic" /\ aPc # "idle") =>
        IF SystemIndexes(chatRequest) = {}
        THEN vendorCall.system = NoSystem /\ vendorCall.messages = chatRequest
        ELSE /\ vendorCall.system = chatRequest[FirstSystemIndex(chatRequest)].content
             /\ vendorCall.messages =
                    WithoutIndex(chatRequest, FirstSystemIndex(chatRequest))

\* what holds instead: with at most one system message in the request
AtMostOneSystemLifted ==
    (adapter = "anthropic" /\ aPc # "idle" /\ Cardinality(SystemIndexes(chatRequest)) <= 1) =>
        IF SystemIndexes(chatRequest) = {}
        THEN vendorCall.system = NoSystem /\ vendorCall.messages = chatRequest
        ELSE /\ vendorCall.system = chatRequest[FirstSystemIndex(chatRequest)].content
             /\ vendorCall.messages =
                    WithoutIndex(chatRequest, FirstSystemIndex(chatRequest))

RECURSIVE Pow(_, _)
Pow(b, e) == IF e = 0 THEN 1 ELSE b * Pow(b, e - 1)

\* the sleep the claim expects between failed attempt i and attempt i + 1
ExpectedSleep(i) ==
    Min(rOpts.initialDelay * Pow(rOpts.factor, i - 1), rOpts.maxDelay)

\* C30: for every option set with maxAttempts >= 1, also with initialDelay >
\* maxDelay, the sleep between failed attempt i and attempt i + 1 is exactly
\* min(initialDelay * factor^(i-1), maxDelay)
C30_SleepsAreCappedBackoff ==
    rOpts.maxAttempts >= 1 =>
        \A i \in 1..Len(rSleeps) : rSleeps[i] = ExpectedSleep(i)

\* what holds instead: the same with initialDelay <= maxDelay
SleepsWhenInitialWithinMax ==
    (rOpts.maxAttempts >= 1 /\ rOpts.initialDelay <= rOpts.maxDelay) =>
        \A i \in 1..Len(rSleeps) : rSleeps[i] = ExpectedSleep(i)

\* execute call e is made in this step, on key k
Executes(e, k) ==
    exec[e].state = "idle" /\ exec'[e].state = "called" /\ exec'[e].key = k

\* C31: an execute that finds an entry of its key pending for windowMs or
\* longer invokes fn and puts its own promise in the map, and the calls made
\* before, those attached to the old promise included, keep the promise they
\* have and its state
C31_StaleEntryTreatedAsAbsent ==
    [][\A e \in Execs, k \in Keys :
          (Executes(e, k) /\ pending[k] # NoEntry
                         /\ coNow - pending[k].timestamp >= WindowMs)
              => /\ exec'[e].invoked
                 /\ exec'[e].promise = e
                 /\ pending'[k] = Entry(e, coNow)
                 /\ \A d \in Execs \ {e} : exec'[d] = exec[d]]_vars

\* call 2 is attached to the promise of call 1; call 3, made on the same key
\* windowMs later with call 1 still pending, has invoked fn; call 1 has then
\* resolved (its finally callback has emptied the key's entry), and call 2
\* observes the outcome of call 1
C31_Witness ==
    /\ ~cleared
    /\ exec[1].invoked /\ exec[1].status = "resolved"
    /\ pending[exec[1].key] = NoEntry
    /\ exec[2].state = "called" /\ exec[2].promise = 1
    /\ exec[3].invoked /\ exec[3].key = exec[1].key /\ exec[3].status = "pending"
    /\ exec[3].at - exec[1].at = WindowMs
    /\ Observed(2) = [status |-> "resolved", value |-> 1]

\* the calls of fn made for key k so far, and whether the latest has settled
InvokedOn(k) == {d \in Invoked : exec[d].key = k}
LatestSettled(k) ==
    /\ InvokedOn(k) # {}
    /\ \E d \in InvokedOn(k) :
          /\ \A c \in InvokedOn(k) : c <= d
          /\ exec[d].status \in {"resolved", "rejected"}

\* C32: outcomes are not cached: an execute on a key whose latest call of fn
\* has settled, by resolving or by rejecting, invokes fn again, however short
\* the time since that call started
C32_SettledOutcomeNotReused ==
    [][\A e \in Execs, k \in Keys :
          (Executes(e, k) /\ LatestSettled(k))
              => (exec'[e].invoked /\ exec'[e].promise = e)]_vars

\* call 1 has rejected and call 2, on the same key and less than windowMs
\* after call 1 started, has invoked fn
C32_Witness ==
    /\ ~cleared
    /\ exec[1].invoked /\ exec[1].status = "rejected"
    /\ exec[2].invoked /\ exec[2].key = exec[1].key
    /\ exec[2].at - exec[1].at < WindowMs
    /\ exec[2].live = {}
    /\ exec[3].state = "idle"

\* set(k, v) is called in this step on a key that has an entry
SetsOver(k) == lastSet'[k] # lastSet[k] /\ cache[k] # NoCacheEntry

\* C33: a set on a key that has an entry replaces its response and its
\* insertion time: afterwards the entry is the new response inserted now, get
\* returns the new response, and the entry is fresh until TTL ms from this set
\* and no longer
C33_SetReplacesResponseAndTime ==
    [][\A k \in CacheKeys :
          SetsOver(k) =>
              /\ cache'[k] = CacheEntry(lastSet'[k].response, cNow)
              /\ GetResult(cache', k, cNow) = lastSet'[k].response
              /\ HasResult(cache', k, cNow + TTL)
              /\ ~HasResult(cache', k, cNow + TTL + 1)]_vars

\* a key set twice, with another response the second time; a get more than TTL
\* after the first set and TTL after the second has returned the second
\* response
C33_Witness ==
    \E k \in CacheKeys :
        /\ firstSet[k] # NoCacheEntry
        /\ lastSet[k].timestamp > firstSet[k].timestamp
        /\ lastSet[k].timestamp - firstSet[k].timestamp < TTL
        /\ lastSet[k].response # firstSet[k].response
        /\ lastGet.key = k
        /\ lastGet.set = lastSet[k]
        /\ lastGet.at - firstSet[k].timestamp > TTL
        /\ lastGet.at - lastSet[k].timestamp = TTL
        /\ lastGet.result = lastSet[k].response

\* check(key) is called in this step; the check it appends to the log
ChecksNow == Len(checks') = Len(checks) + 1
ThisCheck == checks'[Len(checks')]

\* C34: check starts a new window for its key exactly when the key has no
\* entry or now > resetTime, and the new entry is {count 1, resetTime now +
\* windowMs}; a check at now <= resetTime, now = resetTime included, is counted
\* in the existing window, whose resetTime stays
C34_NewWindowOnlyAfterResetTime ==
    [][ChecksNow =>
          LET k == ThisCheck.key
          IN  IF requests[k] = NoLimit \/ rlNow > requests[k].resetTime
              THEN requests'[k] = [count |-> 1, resetTime |-> rlNow + windowMs]
              ELSE /\ requests'[k].resetTime = requests[k].resetTime
                   /\ requests'[k].count =
                          requests[k].count + (IF ThisCheck.allowed THEN 1 ELSE 0)
                   /\ ThisCheck.resetTime = requests[k].resetTime]_vars

\* a check made exactly at resetTime was allowed in the existing window, and
\* the next check, 1 ms later, started a new window
C34_Witness ==
    /\ windowMs = 2
    /\ Len(checks) = 3
    /\ \A i \in 1..3 : checks[i].key = "ip-1"
    /\ checks[2].at = checks[1].resetTime
    /\ checks[2].allowed /\ checks[2].resetTime = checks[1].resetTime
    /\ checks[3].at = checks[1].resetTime + 1
    /\ checks[3].resetTime = checks[3].at + windowMs
    /\ requests["ip-1"] = [count |-> 1, resetTime |-> checks[3].resetTime]

\* C35: check(key) changes the entry of no other key, and a check that
\* returns allowed = false changes no entry at all
C35_CheckTouchesOwnKeyOnly ==
    [][ChecksNow =>
          /\ \A j \in RateKeys \ {ThisCheck.key} : requests'[j] = requests[j]
          /\ ~ThisCheck.allowed => requests' = requests]_vars

\* maxRequests = 1: both keys have a window; a later check on ip-1 was refused
\* and both entries are as the first checks left them
C35_Witness ==
    /\ maxRequests = 1
    /\ windowMs = 2
    /\ Len(checks) = 3
    /\ checks[1].key = "ip-1" /\ checks[1].allowed
    /\ checks[2].key = "ip-2" /\ checks[2].allowed
    /\ checks[3].key = "ip-1" /\ ~checks[3].allowed
    /\ checks[3].at > checks[1].at
    /\ requests["ip-1"] = [count |-> 1, resetTime |-> checks[1].resetTime]
    /\ requests["ip-2"] = [count |-> 1, resetTime |-> checks[2].resetTime]

\* a step that sets nothing and in which no time passes: a get or a has
ReadsNow == lastSet' = lastSet /\ cNow' = cNow
HasAgreesWithGet ==
    \A k \in CacheKeys :
        /\ HasResult(cache, k, cNow) <=> GetResult(cache, k, cNow) # Absent
        /\ HasResult(cache, k, cNow) => GetResult(cache, k, cNow) = cache[k].response

\* C36: get and has leave a fresh entry as it is, delete only the expired
\* entry of the key read, and change no other key's entry; has(k) is true
\* exactly when get(k) returns the stored response
C36_ReadsNeverExtendLife ==
    [][ReadsNow =>
          /\ HasAgreesWithGet
          /\ \A k \in CacheKeys :
                \/ cache'[k] = cache[k]
                \/ /\ cache'[k] = NoCacheEntry
                   /\ cNow - cache[k].timestamp > TTL
          /\ Cardinality({k \in CacheKeys : cache'[k] # cache[k]}) <= 1
          /\ lastGet' # lastGet =>
                \A k \in CacheKeys \ {lastGet'.key} : cache'[k] = cache[k]]_vars

\* idem1 was read fresh half a TTL after its set and still carries the set's
\* time; idem2's expired entry is gone
C36_Witness ==
    /\ lastGet.key = "idem1"
    /\ lastGet.result # Absent
    /\ lastGet.at > lastGet.set.timestamp
    /\ cache["idem1"] = lastGet.set
    /\ firstSet["idem2"] # NoCacheEntry
    /\ cNow - lastSet["idem2"].timestamp > TTL
    /\ cache["idem2"] = NoCacheEntry

\* the errors that say the breaker is open: the one of the fallback of
\* server.ts 114-118 and the one the breaker itself rejects with
OpenErrors == {FallbackResult.error, BreakerOpenError}
FireSaysOpen(c) ==
    \/ call[c].lastFire.settle = "resolved" /\ call[c].lastFire.result.error \in OpenErrors
    \/ call[c].lastFire.settle = "rejected" /\ call[c].lastFire.error \in OpenErrors
ChatSaysOpen(c) ==
    /\ call[c].result.kind = "thrown"
    /\ \E e \in OpenErrors :
          call[c].result.error \in {e, MaxAttemptsError(MaxAttempts, e)}

\* C37: a fire, and the chat call it ends, reports that the breaker is open
\* only when the breaker, Open or HalfOpen, refused it; a fire passed to the
\* provider that timed out or failed reports the timeout or the failure
C37_OpenErrorOnlyWhenRefused ==
    \A c \in Calls :
        /\ FireSaysOpen(c) \/ ChatSaysOpen(c) =>
              call[c].refused /\ call[c].firedIn \in {"open", "halfOpen"}
        /\ ~call[c].refused /\ call[c].outcome = "timeout" =>
              call[c].lastFire = Rejected(TimedOutError)
        /\ ~call[c].refused /\ call[c].outcome = "throws" =>
              call[c].lastFire = Rejected(ProviderThrewError)
        /\ ~call[c].refused /\ call[c].outcome \in Answers =>
              call[c].lastFire = Resolved(ProviderResult(call[c].outcome))

\* the first call's fire reached the provider and timed out; the second call,
\* refused three times by the breaker this opened, failed with the open error
C37_Witness ==
    /\ call[1].pc = "sleep"
    /\ ~call[1].refused
    /\ call[1].outcome = "timeout"
    /\ call[1].lastFire = Rejected(TimedOutError)
    /\ call[2].pc = "done"
    /\ call[2].provider = call[1].provider
    /\ call[2].refused
    /\ call[2].invoked = 0
    /\ call[2].result = Thrown(MaxAttemptsError(MaxAttempts, BreakerOpenError))

\* C38: a request answered 400 'Validation error' is one whose body fails the
\* request schema; a response of llmService.chat that fails the response
\* schema is not answered so
C38_ValidationErrorOnlyForBadRequest ==
    \A r \in Reqs :
        req[r].status = 400 /\ req[r].sent = ErrorBody("Validation error") =>
            /\ ~ParsesRequest(req[r].body)
            /\ req[r].chat = "none"

\* a call that chat has started and that has not completed
Running(c) == call[c].pc \in {"inflight", "sleep"}

\* the clock of the model reaches the end of MaxAttempts attempts of the call
ClockCovers(c) == call[c].began + MaxAttempts * Timeout <= MaxNow

\* C39: every chat call completes, also when the provider never answers
C39_EveryChatCompletes ==
    \A c \in Calls : (Running(c) /\ ClockCovers(c)) ~> (call[c].pc = "done")

\* call 1 and call 2 were made at time 0 on the same provider, which answered
\* neither; call 1's timeout opened the breaker at Timeout and call 1 has
\* completed, its two other attempts refused
C39_Witness ==
    /\ now = Timeout
    /\ call[2].pc = "inflight"
    /\ call[2].start = 0
    /\ call[1].pc = "done"
    /\ call[1].provider = call[2].provider
    /\ call[1].invoked = 1
    /\ call[1].attempt = MaxAttempts
    /\ call[1].result = Thrown(MaxAttemptsError(MaxAttempts, BreakerOpenError))
    /\ breaker[call[1].provider].state = "open"
    /\ breaker[call[1].provider].openedAt = Timeout

\* C40: a step of a chat call changes the breaker of the call's provider
\* only, and no step changes the state of two breakers
C40_BreakersIsolatedPerProvider ==
    [][/\ \A c \in Calls :
             call'[c] # call[c] =>
                 \A q \in Providers \ {call'[c].provider} : breaker'[q] = breaker[q]
       /\ Cardinality({q \in Providers : breaker'[q].state # breaker[q].state}) <= 1]_vars

\* call 1 failed on openai, whose breaker a timeout opened and refused its
\* other attempts; call 2, made after it on anthropic, was admitted by a
\* closed breaker that counts no failure, and returned
C40_Witness ==
    /\ call[1].pc = "done"
    /\ call[1].provider = "openai"
    /\ call[1].refused
    /\ call[1].result = Thrown(MaxAttemptsError(MaxAttempts, BreakerOpenError))
    /\ breaker["openai"].state = "open"
    /\ breaker["openai"].openedAt = Timeout
    /\ call[2].pc = "done"
    /\ call[2].provider = "anthropic"
    /\ call[2].firedIn = "closed"
    /\ call[2].invoked = 1
    /\ call[2].result.kind = "returned"
    /\ breaker["anthropic"].state = "closed"
    /\ breaker["anthropic"].failures = 0

====
